---------------------------- MODULE Spec2Model ----------------------------
(***************************************************************************)
(* Crop-sequence-boundary generation (csb-udl/CSB_Run): the graduated       *)
(* polygon elimination engine (src/eliminator.py), the per-partition        *)
(* pipeline with its repair/retry loop (src/processor.py, gdb_v2.py) and    *)
(* the partition scheduler (create_csb_v2.py).                              *)
(*                                                                         *)
(* The geoprocessing engine (arcpy) is external.  Every call into it may   *)
(* raise; the result of Eliminate is any layer content at all.             *)
(*                                                                         *)
(* The specifications share the variables:                                 *)
(*   SpecElim   one call of PolygonEliminator.eliminate on a scratch        *)
(*              workspace that already holds polygon feature classes;       *)
(*   SpecProc   one run of CSBProcessor.process for one partition;          *)
(*   SpecRepair one call of repair_topology;                                *)
(*   SpecSched  main / process_areas over a list of partitions;             *)
(*   SpecSchedFair  the same with the pool's workers at work;               *)
(*   SpecProcFair   SpecProc with every call returning;                     *)
(*   SpecOrig   one call of process_layer of the original create_csb.py;    *)
(*   SpecWorker one pool worker running the original process_csb for the    *)
(*              areas it is handed (csb-project create_csb.py, logger.py);  *)
(*   SpecUdl    csb_elimination of csb-udl/CSB_Run/create_csb.py on one     *)
(*              input layer.                                                *)
(***************************************************************************)
EXTENDS Integers, Sequences, FiniteSets, TLC

(***************************************************************************)
(* Bounds of the model.                                                    *)
(***************************************************************************)
\* most polygons a layer holds
MaxPolys == 2
\* largest EliminationConfig.max_retries tried in SpecElim
MaxRetries == 2

(***************************************************************************)
(* Layer contents.  A layer is a bag of polygons, kept as the number of     *)
(* polygons of each area.  The areas are the first two default thresholds   *)
(* themselves (a polygon whose area equals the threshold) and one area      *)
(* above every default threshold.                                          *)
(***************************************************************************)
Areas == {1000, 1900, 8101}

\* constants.py:41, cut to its first two thresholds
DEFAULT_ELIMINATION_AREAS == <<1000, 1900>>

\* a configured elimination_areas that is not ascending (EliminationConfig
\* takes any tuple, eliminator.py:25)
DescendingAreas == <<1900, 1000>>

RECURSIVE SumOver(_, _)
SumOver(c, S) ==
    IF S = {} THEN 0
    ELSE LET a == CHOOSE x \in S : TRUE IN c[a] + SumOver(c, S \ {a})

Contents == {c \in [Areas -> 0..MaxPolys] : SumOver(c, Areas) <= MaxPolys}

\* math.inf of eliminator.py:160: above every count a layer can give
Inf == MaxPolys + 1

\* the where clause with < for <=
WhereClauseStrict(area, shape_area) == area < shape_area

\* where_clause f"Shape_Area <= {shape_area}" (eliminator.py:170)
WhereClause(area, shape_area) == area <= shape_area

\* SelectLayerByAttribute + GetCount (eliminator.py:167-172)
GetCount(c, shape_area) ==
    SumOver(c, {a \in Areas : WhereClause(a, shape_area)})

(***************************************************************************)
(* Names.  A feature class or layer name is its "_"-separated tokens.      *)
(***************************************************************************)
\* temp_name, f"{scratch}/{layer_name}_{shape_area}_{iteration}" (eliminator.py:178)
TempName(layer_name, shape_area, it) ==
    layer_name \o <<ToString(shape_area), ToString(it)>>

\* f"{layer_name}_{shape_area}_{iteration}_Layer" (eliminator.py:179)
LayerName(layer_name, shape_area, it) ==
    TempName(layer_name, shape_area, it) \o <<"Layer">>

\* the feature classes a scratch workspace may hold before elimination
FC1 == <<"A1", "0">>
FC2 == <<"A1", "1">>

RECURSIVE SetToSeq(_)
SetToSeq(S) ==
    IF S = {} THEN <<>>
    ELSE LET x == CHOOSE y \in S : \A z \in S : Len(y) <= Len(z)
         IN <<x>> \o SetToSeq(S \ {x})

VARIABLES
    \* ---- workspace and configuration
    scratch,             \* names of the feature classes in the scratch workspace
    baseContent,         \* content of each feature class found there at the start
    max_retries,         \* EliminationConfig.max_retries
    elimination_areas,   \* EliminationConfig.elimination_areas
    \* ---- PolygonEliminator.eliminate
    epc,                 \* where the eliminator is
    e_retry,             \* retry_count of eliminate
    \* ---- _process_layers
    feature_layers,      \* list(self._get_feature_layers())
    fl_idx,              \* position in feature_layers
    size_idx,            \* position in elimination_areas
    last_iteration_name,
    lastC,               \* content of the layer last_iteration_name names
    recent_layer,        \* layer of the pass's last successful Eliminate and
                         \* MakeFeatureLayer, the input layer at first (history)
    \* ---- _process_elimination / _eliminate_iteration
    p_retry,             \* retry_count of _process_elimination
    new_layer_name,
    curC,                \* content of the layer new_layer_name names
    outC,                \* content of the feature class Eliminate just wrote
    iteration,
    previous_poly_count,
    poly_count,
    \* ---- observation of the engine calls (history)
    lastEvent,           \* what the last step did
    elimCalls,           \* Eliminate calls of the running _eliminate_iteration
    firstCount,          \* count selected in its first iteration
    callPasses,          \* _process_layers runs started by this eliminate call
    passFails,           \* of which failed
    fcSkipped,           \* feature classes skipped by _get_feature_layers
    sizesSkipped,        \* thresholds skipped by _process_layers
    totalPasses,         \* _process_layers runs started for the partition
    repaired,            \* RepairGeometry was called since the last failed pass
    \* ---- CSBProcessor (src/processor.py)
    ppc,                 \* where process is
    present,             \* the years whose raster file exists
    attempt_count,       \* attempt_count of _add_count_field
    pr_retry,            \* retry_count of _eliminate_polygons
    stagesRun,           \* the stages started, in order (history)
    stagesOk,            \* the stages that completed (history)
    repairCalls,         \* RepairGeometry calls (history)
    addFieldCalls,       \* add_field calls (history)
    repair_target,       \* the feature RepairGeometry was last called on
    outcome,             \* how process_csb ended for the partition
    logged,              \* the messages in the partition's own log file
    \* ---- main and process_areas (create_csb_v2.py)
    spc,                 \* where main is
    areas,               \* the list of areas to process
    cpu_count_val,       \* max_workers of the pool
    submitted,           \* how many of areas have been submitted
    task,                \* state of the future of each area
    futures,             \* the futures still waited for
    completed,
    total,
    printed,             \* the lines printed by process_areas (history)
    main_result,         \* what main returned
    cpu_prct,            \* the configured cpu_prct, in hundredths
    units,               \* cpu_count() of the machine
    error_log,           \* the messages log/overall_error.txt holds
    written,             \* the messages written to it so far (history)
    partial_area,        \* args.partial_area, 0 for "None"
    discovered,          \* the list get_area_list returned (history)
    \* ---- one worker process of the original pool (csb-project create_csb.py)
    w_queue,             \* the areas the pool hands to the worker, in order
    w_idx,               \* how many of them the worker has started
    w_results,           \* how process_csb ended for each started area
    opc,                 \* where the running process_csb is
    o_attempts,          \* turns of its elimination loop so far (history)
    root_handlers,       \* areas whose log file the root logger writes to
    log_files            \* the records in the log file of each area

cfgVars  == <<scratch, baseContent, max_retries, elimination_areas>>
passVars == <<feature_layers, fl_idx, size_idx, last_iteration_name, lastC,
              recent_layer>>
iterVars == <<p_retry, new_layer_name, curC, outC, iteration,
              previous_poly_count, poly_count>>
histVars == <<lastEvent, elimCalls, firstCount, callPasses, passFails,
              fcSkipped, sizesSkipped, totalPasses, repaired>>
elimVars == <<cfgVars, epc, e_retry, passVars, iterVars, histVars>>
procVars == <<ppc, present, attempt_count, pr_retry, stagesRun, stagesOk,
              repairCalls, addFieldCalls, repair_target, outcome, logged>>

\* the worker of the original pool
workerVars == <<w_queue, w_idx, w_results, opc, o_attempts, root_handlers,
                log_files>>

\* the scheduler of create_csb_v2.py
schedCore == <<spc, areas, cpu_count_val, submitted, task, futures, completed,
               total, printed, main_result, cpu_prct, units, partial_area,
               discovered>>

\* everything outside the engine and the processor but the error file
schedRest == <<schedCore, workerVars>>
schedVars == <<schedRest, error_log, written>>

vars == <<elimVars, procVars, schedVars>>

NoName == <<>>
NoContent == [a \in Areas |-> 0]
\* one polygon at each of the two thresholds
MixedContent == [a \in Areas |-> IF a \in {1000, 1900} THEN 1 ELSE 0]

(***************************************************************************)
(* PolygonEliminator (src/eliminator.py)                                    *)
(***************************************************************************)
\* the threshold and the base layer _process_layers is at
shape_area == elimination_areas[size_idx]
layer_name == feature_layers[fl_idx]

\* the break test with the stall half dropped
StallGuardZeroOnly(count, previous) == count = 0

\* the break test with > for >=
StallGuardStrict(count, previous) == count = 0 \/ count > previous

\* the break test always true
StallGuardAlways(count, previous) == TRUE

\* the break test with the empty-selection half dropped
StallGuardStallOnly(count, previous) == count >= previous

\* the break test of _eliminate_iteration (eliminator.py:174)
StallGuard(count, previous) == count = 0 \/ count >= previous

\* the retry test with <= for <
EliminateRetriesOneMore(retry_count) == retry_count <= max_retries

\* eliminate's test after a failed pass: retry or give up (eliminator.py:61)
EliminateRetries(retry_count) == retry_count < max_retries

\* _process_elimination's test after a failed iteration (eliminator.py:133)
IterationRetries(retry_count) == retry_count < max_retries

\* the starting layer with the result of the threshold before dropped
StartLayerNameBase(last, base) == base

\* new_layer_name = last_iteration_name or layer_name (eliminator.py:158)
StartLayerName(last, base) == IF last # NoName THEN last ELSE base

\* _eliminate_iteration entry (eliminator.py:158-160)
StartIteration(name, c) ==
    /\ new_layer_name' = name
    /\ curC' = c
    /\ outC' = NoContent
    /\ iteration' = 0
    /\ previous_poly_count' = Inf
    /\ poly_count' = 0
    /\ elimCalls' = 0
    /\ firstCount' = 0

\* the frame of _eliminate_iteration is gone
ClearIteration ==
    /\ new_layer_name' = NoName
    /\ curC' = NoContent
    /\ outC' = NoContent
    /\ iteration' = 0
    /\ previous_poly_count' = Inf
    /\ poly_count' = 0
    /\ UNCHANGED <<elimCalls, firstCount>>

\* _process_layers after _process_elimination returned (eliminator.py:82-92):
\* lname is the layer carried on (result, or last_iteration_name kept when the
\* result is None); then the next size, the next feature layer, or the end of
\* the pass, where eliminate returns (eliminator.py:57).
Advance(lname, lc) ==
    /\ feature_layers' = feature_layers
    /\ IF size_idx < Len(elimination_areas)
       THEN /\ size_idx' = size_idx + 1
            /\ fl_idx' = fl_idx
            /\ last_iteration_name' = lname
            /\ lastC' = lc
            /\ recent_layer' = recent_layer
            /\ p_retry' = 0
            /\ StartIteration(StartLayerName(lname, layer_name), lc)
            /\ epc' = "select"
       ELSE IF fl_idx < Len(feature_layers)
       THEN /\ size_idx' = 1
            /\ fl_idx' = fl_idx + 1
            /\ last_iteration_name' = feature_layers[fl_idx + 1]
            /\ lastC' = baseContent[feature_layers[fl_idx + 1]]
            /\ recent_layer' = feature_layers[fl_idx + 1]
            /\ p_retry' = 0
            /\ StartIteration(StartLayerName(feature_layers[fl_idx + 1],
                                             feature_layers[fl_idx + 1]),
                              baseContent[feature_layers[fl_idx + 1]])
            /\ epc' = "select"
       ELSE /\ size_idx' = size_idx
            /\ fl_idx' = fl_idx
            /\ last_iteration_name' = lname
            /\ lastC' = lc
            /\ recent_layer' = recent_layer
            /\ p_retry' = 0
            /\ ClearIteration
            /\ epc' = "returned"

\* the except clause of _process_elimination (eliminator.py:131-142): the
\* iteration is run again from last_iteration_name, or None is returned and
\* _process_layers goes on with the next size (eliminator.py:91-92).
IterationFailed ==
    IF IterationRetries(p_retry + 1)
    THEN /\ p_retry' = p_retry + 1
         /\ StartIteration(StartLayerName(last_iteration_name, layer_name), lastC)
         /\ epc' = "select"
         /\ lastEvent' = "iteration_retry"
         /\ UNCHANGED <<passVars, sizesSkipped>>
    ELSE /\ Advance(last_iteration_name, lastC)
         /\ lastEvent' = "size_skipped"
         /\ sizesSkipped' = sizesSkipped + 1

\* the except clause of eliminate (eliminator.py:59-74); event is how the
\* pass failed
PassFailed(event) ==
    /\ e_retry' = e_retry + 1
    /\ passFails' = passFails + 1
    /\ IF EliminateRetries(e_retry + 1)
       THEN /\ epc' = "list_layers"
            /\ callPasses' = callPasses + 1
            /\ totalPasses' = totalPasses + 1
       ELSE /\ epc' = "raised"
            /\ callPasses' = callPasses
            /\ totalPasses' = totalPasses
    /\ repaired' = FALSE
    /\ lastEvent' = event
    /\ UNCHANGED <<passVars, iterVars, elimCalls, firstCount, sizesSkipped>>

\* eliminate up to its first pass (eliminator.py:42-56)
EliminateEnter ==
    /\ epc = "call"
    /\ e_retry' = 0
    /\ passFails' = 0
    /\ IF 0 < max_retries
       THEN /\ epc' = "list_layers"
            /\ callPasses' = 1
            /\ totalPasses' = totalPasses + 1
       ELSE /\ epc' = "returned"
            /\ callPasses' = 0
            /\ totalPasses' = totalPasses
    /\ lastEvent' = "enter"
    /\ UNCHANGED <<cfgVars, passVars, iterVars, elimCalls, firstCount,
                   fcSkipped, sizesSkipped, repaired, procVars, schedVars>>

\* _process_layers up to its first select: list(self._get_feature_layers())
\* (eliminator.py:78-80, 94-114) lists the ambient workspace, which eliminate
\* set to config.scratch (eliminator.py:51-53).  ok: ListFeatureClasses did
\* not raise; made: the feature classes whose MakeFeatureLayer did not raise.
ListLayers ==
    /\ epc = "list_layers"
    /\ \E ok \in BOOLEAN, made \in SUBSET scratch :
          IF ~ok
          THEN PassFailed("list_raised") /\ UNCHANGED fcSkipped
          ELSE IF made = {}
          THEN PassFailed("no_layers") /\ fcSkipped' = scratch
          ELSE /\ feature_layers' = SetToSeq(made)
               /\ fl_idx' = 1
               /\ size_idx' = 1
               /\ last_iteration_name' = SetToSeq(made)[1]
               /\ lastC' = baseContent[SetToSeq(made)[1]]
               /\ recent_layer' = SetToSeq(made)[1]
               /\ p_retry' = 0
               /\ StartIteration(StartLayerName(SetToSeq(made)[1],
                                                SetToSeq(made)[1]),
                                 baseContent[SetToSeq(made)[1]])
               /\ epc' = "select"
               /\ fcSkipped' = scratch \ made
               /\ lastEvent' = "list_ok"
               /\ UNCHANGED <<e_retry, callPasses, passFails, sizesSkipped,
                              totalPasses, repaired>>
    /\ UNCHANGED <<cfgVars, procVars, schedVars>>

\* select and count (eliminator.py:163-175)
Select ==
    /\ epc = "select"
    /\ \E ok \in BOOLEAN :
          IF ~ok
          THEN IterationFailed
          ELSE LET n == GetCount(curC, shape_area) IN
               IF StallGuard(n, previous_poly_count)
               THEN /\ Advance(new_layer_name, curC)
                    /\ lastEvent' = IF n = 0 THEN "break_zero" ELSE "break_stall"
                    /\ UNCHANGED sizesSkipped
               ELSE /\ iteration' = iteration + 1
                    /\ poly_count' = n
                    /\ firstCount' = IF iteration = 0 THEN n ELSE firstCount
                    /\ epc' = "eliminating"
                    /\ lastEvent' = "selected"
                    /\ UNCHANGED <<passVars, p_retry, new_layer_name, curC, outC,
                                   previous_poly_count, elimCalls, sizesSkipped>>
    /\ UNCHANGED <<cfgVars, e_retry, callPasses, passFails, fcSkipped,
                   totalPasses, repaired, procVars, schedVars>>

\* Eliminate into temp_name (eliminator.py:178-182); the engine decides the
\* content of what it writes.  new_layer_name is already the name of the layer
\* that MakeFeatureLayer has yet to make.
Eliminate ==
    /\ epc = "eliminating"
    /\ \E ok \in BOOLEAN :
          IF ~ok
          THEN IterationFailed /\ UNCHANGED scratch
          ELSE \E out \in Contents :
               /\ scratch' = scratch \cup {TempName(layer_name, shape_area, iteration)}
               /\ new_layer_name' = LayerName(layer_name, shape_area, iteration)
               /\ curC' = NoContent
               /\ outC' = out
               /\ elimCalls' = elimCalls + 1
               /\ epc' = "make_layer"
               /\ lastEvent' = "eliminated"
               /\ UNCHANGED <<passVars, p_retry, iteration,
                              previous_poly_count, poly_count, firstCount,
                              sizesSkipped>>
    /\ UNCHANGED <<baseContent, max_retries, elimination_areas, e_retry,
                   callPasses, passFails, fcSkipped, totalPasses, repaired,
                   procVars, schedVars>>

\* MakeFeatureLayer of temp_name, then previous_poly_count (eliminator.py:184-186)
MakeLayer ==
    /\ epc = "make_layer"
    /\ \E ok \in BOOLEAN :
          IF ~ok
          THEN IterationFailed
          ELSE /\ curC' = outC
               /\ previous_poly_count' = poly_count
               /\ recent_layer' = new_layer_name
               /\ epc' = "select"
               /\ lastEvent' = "layer_made"
               /\ UNCHANGED <<feature_layers, fl_idx, size_idx,
                              last_iteration_name, lastC, p_retry,
                              new_layer_name, outC, iteration, poly_count,
                              elimCalls, firstCount, sizesSkipped>>
    /\ UNCHANGED <<cfgVars, e_retry, callPasses, passFails, fcSkipped,
                   totalPasses, repaired, procVars, schedVars>>

(***************************************************************************)
(* SpecElim: one call of eliminate.  The scratch workspace is empty, or     *)
(* holds one feature class of any content (of MixedContent when more than  *)
(* one retry is configured), or two of MixedContent.  The thresholds are    *)
(* the default ones or, for one feature class, descending.                  *)
(***************************************************************************)
InitEngineIdle ==
    /\ e_retry = 0
    /\ feature_layers = <<>>
    /\ fl_idx = 0
    /\ size_idx = 0
    /\ last_iteration_name = NoName
    /\ lastC = NoContent
    /\ recent_layer = NoName
    /\ p_retry = 0
    /\ new_layer_name = NoName
    /\ curC = NoContent
    /\ outC = NoContent
    /\ iteration = 0
    /\ previous_poly_count = Inf
    /\ poly_count = 0
    /\ lastEvent = "none"
    /\ elimCalls = 0
    /\ firstCount = 0
    /\ callPasses = 0
    /\ passFails = 0
    /\ fcSkipped = {}
    /\ sizesSkipped = 0
    /\ totalPasses = 0
    /\ repaired = FALSE

\* no scheduler: one partition on its own
InitNoScheduler ==
    /\ spc = "none"
    /\ areas = <<>>
    /\ cpu_count_val = 1
    /\ submitted = 0
    /\ task = <<>>
    /\ futures = {}
    /\ completed = 0
    /\ total = 0
    /\ printed = <<>>
    /\ main_result = "running"
    /\ cpu_prct = 100
    /\ units = 1
    /\ partial_area = 0
    /\ discovered = <<>>

\* no worker of the original pool
InitNoWorker ==
    /\ w_queue = <<>>
    /\ w_idx = 0
    /\ w_results = <<>>
    /\ opc = "none"
    /\ o_attempts = 0
    /\ root_handlers = {}
    /\ log_files = <<>>

\* nothing has failed yet: log/overall_error.txt is not there
InitNoErrors ==
    /\ error_log = <<>>
    /\ written = {}

\* no CSBProcessor: the eliminator is driven directly
InitNoProcessor ==
    /\ ppc = "none"
    /\ present = {}
    /\ attempt_count = 0
    /\ pr_retry = 0
    /\ stagesRun = <<>>
    /\ stagesOk = {}
    /\ repairCalls = 0
    /\ addFieldCalls = 0
    /\ repair_target = NoName
    /\ outcome = "none"
    /\ logged = {}

InitElim ==
    /\ scratch \in {{}, {FC1}, {FC1, FC2}}
    /\ baseContent \in [scratch -> Contents]
    /\ max_retries \in 0..MaxRetries
    /\ Cardinality(scratch) > 1 =>
          /\ \A fc \in scratch : baseContent[fc] = MixedContent
          /\ max_retries <= 1
    /\ max_retries >= 2 => \A fc \in scratch : baseContent[fc] = MixedContent
    /\ elimination_areas \in {DEFAULT_ELIMINATION_AREAS, DescendingAreas}
    /\ elimination_areas = DescendingAreas =>
          Cardinality(scratch) = 1 /\ max_retries = 1
    /\ epc = "call"
    /\ InitEngineIdle
    /\ InitNoProcessor
    /\ InitNoScheduler
    /\ InitNoErrors
    /\ InitNoWorker

NextElim ==
    \/ EliminateEnter
    \/ ListLayers
    \/ Select
    \/ Eliminate
    \/ MakeLayer

SpecElim == InitElim /\ [][NextElim]_vars

(***************************************************************************)
(* CSBProcessor (src/processor.py) and repair_topology (gdb_v2.py)          *)
(***************************************************************************)
\* years of range(start_year, end_year + 1) in the model
NumYears == 2
Years == 1..NumYears

\* max_attempts of _add_count_field
max_attempts == 5
\* max_retries of _eliminate_polygons
processor_max_retries == 5
\* EliminationConfig.max_retries when none is given
default_max_retries == 3

\* config.area of the partition process runs for
config_area == 1

\* a write that leaves the file as it was
WriteTextKeep(content, msg) == content

\* Path.write_text opens the file for writing, which truncates it
\* (create_csb_v2.py:88, processor.py:82)
WriteText(content, msg) == <<msg>>

\* logger.error through the FileHandler of log/<area>.log, which appends
\* (logger_v2.py:35)
Log(log, msg) == log \cup {msg}

\* the messages a failing process_csb writes to the error log: the one of
\* CSBProcessor.process (processor.py:82) when the failure came from it, then
\* its own (create_csb_v2.py:86-88)
ErrorMessages(area, in_process) ==
    IF in_process THEN << <<"process", area>>, <<"process_csb", area>> >>
    ELSE << <<"process_csb", area>> >>

\* the stages of process, in the order of its body (processor.py:52-75)
StageOrder ==
    <<"get_year_files", "initialize_gdbs", "combine", "add_field",
      "calculate_field", "null_mask", "raster_to_polygon", "project",
      "eliminate">>

\* the year check with only the first year looked at
MissingYearFirstOnly == 1 \notin present

\* _get_year_files: some year of the range has no file (processor.py:88-91)
MissingYear == \E year \in Years : year \notin present

\* a failed stage taken as done
NextStageAlways(ok, next) == next

\* where process goes after a stage: on, or through its except clause, which
\* logs, writes the error file and raises (processor.py:80-83)
NextStage(ok, next) == IF ok THEN next ELSE "failed"

procRest == <<present, attempt_count, pr_retry, repairCalls, addFieldCalls,
              repair_target, outcome, logged>>

\* file resolution (processor.py:54, 85-93)
P_GetYearFiles ==
    /\ ppc = "get_year_files"
    /\ stagesRun' = Append(stagesRun, "get_year_files")
    /\ ppc' = NextStage(~MissingYear, "initialize_gdbs")
    /\ stagesOk' = IF MissingYear THEN stagesOk ELSE stagesOk \cup {"get_year_files"}
    /\ UNCHANGED <<elimVars, procRest, schedVars>>

\* one stage that is one engine call, which may raise
EngineStage(stage, next) ==
    /\ ppc = stage
    /\ stagesRun' = Append(stagesRun, stage)
    /\ \E ok \in BOOLEAN :
          /\ ppc' = NextStage(ok, next)
          /\ stagesOk' = IF ok THEN stagesOk \cup {stage} ELSE stagesOk
    /\ UNCHANGED <<elimVars, procRest, schedVars>>

\* processor.py:57, 95-100 and gdb_v2.py:23-55
P_InitializeGdbs == EngineStage("initialize_gdbs", "combine")
\* processor.py:61, 102-112
P_CombineRasters == EngineStage("combine", "add_field")
\* processor.py:143-146
P_CalculateField == EngineStage("calculate_field", "null_mask")
\* processor.py:68, 148-158
P_CreateNullMask == EngineStage("null_mask", "raster_to_polygon")
\* processor.py:168-175
P_RasterToPolygon == EngineStage("raster_to_polygon", "project")
\* processor.py:183-190
P_Project == EngineStage("project", "eliminate")

\* the loop test with <= for <
AddFieldRetriesOneMore(count) == count <= max_attempts

\* the loop test of _add_count_field (processor.py:119); the test of
\* processor.py:125 is its negation once the loop is left without break
AddFieldRetries(count) == count < max_attempts

\* one turn of the loop of _add_count_field (processor.py:119-126): seen is
\* whether add_field gave a field list holding COUNT0 (gdb_v2.py:58-87)
P_AddField ==
    /\ ppc = "add_field"
    /\ addFieldCalls' = addFieldCalls + 1
    /\ stagesRun' = IF attempt_count = 0 THEN Append(stagesRun, "add_field")
                    ELSE stagesRun
    /\ \E seen \in BOOLEAN :
          IF seen
          THEN /\ ppc' = "calculate_field"
               /\ stagesOk' = stagesOk \cup {"add_field"}
               /\ attempt_count' = attempt_count
          ELSE /\ attempt_count' = attempt_count + 1
               /\ ppc' = NextStage(AddFieldRetries(attempt_count + 1), "add_field")
               /\ stagesOk' = stagesOk
    /\ UNCHANGED <<elimVars, present, pr_retry, repairCalls, repair_target,
                   outcome, logged, schedVars>>

\* _eliminate_polygons: the loop test and the making of the eliminator
\* (processor.py:200-221)
P_StartEliminator ==
    /\ ppc = "eliminate"
    /\ pr_retry < processor_max_retries
    /\ stagesRun' = IF pr_retry = 0 THEN Append(stagesRun, "eliminate")
                    ELSE stagesRun
    /\ max_retries' = processor_max_retries - pr_retry
    /\ epc' = "call"
    /\ ppc' = "eliminating"
    /\ UNCHANGED <<scratch, baseContent, elimination_areas, e_retry, passVars,
                   iterVars, histVars, stagesOk, procRest, schedVars>>

\* the count with the increment dropped
NextAttemptSame(retry_count) == retry_count

\* retry_count += 1 (processor.py:226)
NextAttempt(retry_count) == retry_count + 1

\* the test with <= for <
RepairRetriesOneMore(retry_count) == retry_count <= processor_max_retries

\* the test of the except clause: repair and go on, or raise
\* (processor.py:231)
RepairRetries(retry_count) == retry_count < processor_max_retries

\* eliminator.eliminate() has returned or raised (processor.py:222-237); a
\* failed attempt is logged and written to the error file
P_AfterEliminate ==
    /\ ppc = "eliminating"
    /\ epc \in {"returned", "raised"}
    /\ epc' = "idle"
    /\ IF epc = "returned"
       THEN /\ ppc' = "done"
            /\ stagesOk' = stagesOk \cup {"eliminate"}
            /\ pr_retry' = pr_retry
            /\ UNCHANGED <<logged, error_log, written>>
       ELSE /\ pr_retry' = NextAttempt(pr_retry)
            /\ logged' = Log(logged, <<"eliminate", config_area>>)
            /\ error_log' = WriteText(error_log, <<"eliminate", config_area>>)
            /\ written' = written \cup {<<"eliminate", config_area>>}
            /\ ppc' = NextStage(RepairRetries(pr_retry'), "repair")
            /\ stagesOk' = stagesOk
    /\ UNCHANGED <<cfgVars, e_retry, passVars, iterVars, histVars, present,
                   attempt_count, stagesRun, repairCalls, addFieldCalls,
                   repair_target, outcome, schedRest>>

\* area_name = "_".join(fc.split("_")[:2]) (gdb_v2.py:135)
AreaName(fc) == SubSeq(fc, 1, IF Len(fc) < 2 THEN Len(fc) ELSE 2)

\* area_counts (gdb_v2.py:133-136)
AreaCounts(S) ==
    [a \in {AreaName(fc) : fc \in S} |->
        Cardinality({fc \in S : AreaName(fc) = a})]

\* the areas with the most feature classes
RepairAreasMost(S) ==
    {a \in DOMAIN AreaCounts(S) :
        \A b \in DOMAIN AreaCounts(S) : AreaCounts(S)[a] >= AreaCounts(S)[b]}

\* min(area_counts.items(), key=lambda x: x[1])[0] (gdb_v2.py:138): an area
\* with the least count; among equals min takes the first in the order the
\* engine listed the feature classes, which is any of them
RepairAreas(S) ==
    {a \in DOMAIN AreaCounts(S) :
        \A b \in DOMAIN AreaCounts(S) : AreaCounts(S)[a] <= AreaCounts(S)[b]}

\* f"{in_gdb}/{repair_area}_In" (gdb_v2.py:142)
RepairTarget(repair_area) == repair_area \o <<"In">>

\* repair_topology (gdb_v2.py:118-144), called in the except clause of
\* _eliminate_polygons (processor.py:232-233): listed is whether
\* ListFeatureClasses did not raise, ok whether RepairGeometry did not;
\* nothing is repaired when the scratch workspace lists no feature class.
\* What it raises leaves the retry loop and reaches the except clause of
\* process.
P_RepairTopology ==
    /\ ppc = "repair"
    /\ \E listed \in BOOLEAN, ok \in BOOLEAN :
          IF ~listed
          THEN /\ ppc' = NextStage(FALSE, "eliminate")
               /\ lastEvent' = "repair_raised"
               /\ UNCHANGED <<repairCalls, repaired, repair_target>>
          ELSE IF scratch = {}
          THEN /\ ppc' = NextStage(TRUE, "eliminate")
               /\ lastEvent' = "nothing_to_repair"
               /\ UNCHANGED <<repairCalls, repaired, repair_target>>
          ELSE \E repair_area \in RepairAreas(scratch) :
                  /\ repairCalls' = repairCalls + 1
                  /\ repair_target' = RepairTarget(repair_area)
                  /\ repaired' = TRUE
                  /\ ppc' = NextStage(ok, "eliminate")
                  /\ lastEvent' = IF ok THEN "repaired" ELSE "repair_raised"
    /\ UNCHANGED <<cfgVars, epc, e_retry, passVars, iterVars,
                   elimCalls, firstCount, callPasses, passFails, fcSkipped,
                   sizesSkipped, totalPasses, present, attempt_count, pr_retry,
                   stagesRun, stagesOk, addFieldCalls, outcome, logged,
                   schedVars>>

procState == <<ppc, present, attempt_count, pr_retry, stagesRun, stagesOk,
               repairCalls, addFieldCalls, repair_target>>

\* the except clause of process (processor.py:80-83): the failure is logged,
\* written to the error file and raised on as ProcessingError
P_ProcessExcept ==
    /\ ppc = "failed"
    /\ outcome = "none"
    /\ LET msg == ErrorMessages(config_area, TRUE)[1] IN
          /\ logged' = Log(logged, msg)
          /\ error_log' = WriteText(error_log, msg)
          /\ written' = written \cup {msg}
    /\ outcome' = "raising"
    /\ UNCHANGED <<elimVars, procState, schedRest>>

\* class ProcessingError(CSBError), class CSBError(Exception)
ExceptionBases(exc) ==
    IF exc = "ProcessingError" THEN {"ProcessingError", "CSBError", "Exception"}
    ELSE {exc, "Exception"}

\* process_csb turns every failure of the pipeline into a ProcessingError
TaskException == "ProcessingError"

\* the end of process_csb (create_csb_v2.py:81-89): process returned and
\* "Finished <area>" is returned, or it raised and the except clause logs the
\* failure, writes it to the error file and raises ProcessingError to
\* process_areas through the future
P_ProcessCsbEnd ==
    /\ \/ ppc = "done" /\ outcome = "none"
       \/ outcome = "raising"
    /\ IF outcome = "raising"
       THEN LET msg == ErrorMessages(config_area, TRUE)[2] IN
               /\ logged' = Log(logged, msg)
               /\ error_log' = WriteText(error_log, msg)
               /\ written' = written \cup {msg}
               /\ outcome' = TaskException
       ELSE /\ outcome' = "Finished"
            /\ UNCHANGED <<logged, error_log, written>>
    /\ UNCHANGED <<elimVars, procState, schedRest>>

(***************************************************************************)
(* SpecProc: one run of process for one partition.  initialize_gdbs makes   *)
(* the scratch geodatabase, and nothing writes to it before elimination.   *)
(***************************************************************************)
InitProc ==
    /\ scratch = {}
    /\ baseContent = [fc \in {} |-> NoContent]
    /\ max_retries = default_max_retries
    /\ elimination_areas = DEFAULT_ELIMINATION_AREAS
    /\ epc = "idle"
    /\ InitEngineIdle
    /\ ppc = "get_year_files"
    /\ present \in SUBSET Years
    /\ attempt_count = 0
    /\ pr_retry = 0
    /\ stagesRun = <<>>
    /\ stagesOk = {}
    /\ repairCalls = 0
    /\ addFieldCalls = 0
    /\ repair_target = NoName
    /\ outcome = "none"
    /\ logged = {}
    /\ InitNoScheduler
    /\ InitNoErrors
    /\ InitNoWorker

\* With the scratch workspace empty, _get_feature_layers yields nothing and
\* every pass ends in PassFailed: Select, Eliminate and MakeLayer cannot be
\* reached from process and are left to SpecElim.
NextProc ==
    \/ P_GetYearFiles
    \/ P_InitializeGdbs
    \/ P_CombineRasters
    \/ P_AddField
    \/ P_CalculateField
    \/ P_CreateNullMask
    \/ P_RasterToPolygon
    \/ P_Project
    \/ P_StartEliminator
    \/ EliminateEnter
    \/ ListLayers
    \/ P_AfterEliminate
    \/ P_RepairTopology
    \/ P_ProcessExcept
    \/ P_ProcessCsbEnd

SpecProc == InitProc /\ [][NextProc]_vars

\* the same with every call returning: process is never left waiting
SpecProcFair == InitProc /\ [][NextProc]_vars /\ WF_vars(NextProc)

(***************************************************************************)
(* SpecRepair: one call of repair_topology, after a failed elimination, on  *)
(* a scratch workspace holding any of the feature classes elimination may   *)
(* have left there for three sub-areas.                                     *)
(***************************************************************************)
FC3 == <<"A2", "0">>

RepairNames ==
    {FC1, FC2, FC3}
    \cup {TempName(fc, DEFAULT_ELIMINATION_AREAS[k], 1) :
             fc \in {FC1, FC2}, k \in 1..Len(DEFAULT_ELIMINATION_AREAS)}

InitRepair ==
    /\ scratch \in SUBSET RepairNames
    /\ baseContent = [fc \in scratch |-> NoContent]
    /\ max_retries = processor_max_retries
    /\ elimination_areas = DEFAULT_ELIMINATION_AREAS
    /\ epc = "idle"
    /\ InitEngineIdle
    /\ ppc = "repair"
    /\ present = Years
    /\ attempt_count = 0
    /\ pr_retry = 1
    /\ stagesRun = StageOrder
    /\ stagesOk = {StageOrder[i] : i \in 1..(Len(StageOrder) - 1)}
    /\ repairCalls = 0
    /\ addFieldCalls = 1
    /\ repair_target = NoName
    /\ outcome = "none"
    /\ logged = {<<"eliminate", config_area>>}
    /\ error_log = <<<<"eliminate", config_area>>>>
    /\ written = {<<"eliminate", config_area>>}
    /\ InitNoScheduler
    /\ InitNoWorker

NextRepair == P_RepairTopology

SpecRepair == InitRepair /\ [][NextRepair]_vars

(***************************************************************************)
(* main and process_areas (create_csb_v2.py)                                *)
(***************************************************************************)
MaxAreas == 3
\* most processing units of the machine, so most workers of the pool
MaxWorkers == 2

\* a cpu_prct that is missing from the configuration or is not a number:
\* cfg["global"]["cpu_prct"] or float() raises (create_csb_v2.py:155, 158)
Unparsable == -1

\* the configured fractions tried, in hundredths
CpuPrctValues == {Unparsable, 0, 25, 50, 75, 100, 150}

\* cpu_percent = 0.75 (create_csb_v2.py:160)
default_cpu_percent == 75

\* the try block of setup_processing (create_csb_v2.py:154-160)
CpuPercent(p) ==
    IF p # Unparsable /\ 0 < p /\ p <= 100 THEN p ELSE default_cpu_percent

\* the pool size without the minimum of 1
PoolSizeNoMinimum(p, u) == (CpuPercent(p) * u) \div 100

\* max(1, math.floor(cpu_percent * cpu_count())) (create_csb_v2.py:162); over
\* the fractions and unit counts tried the double product has the floor of
\* the exact one
PoolSize(p, u) ==
    LET f == (CpuPercent(p) * u) \div 100 IN IF 1 > f THEN 1 ELSE f

CaughtNothing(exc) == FALSE

\* except Exception
Caught(exc) == "Exception" \in ExceptionBases(exc)

\* sys.exit(1 if main() else 0)
ExitStatus == IF main_result = "None" THEN 0 ELSE 1

Running == {i \in 1..Len(task) : task[i] = "running"}

\* a pending future that runs only while no future has failed
RunnableWhileNoFailure(i) ==
    task[i] = "pending" /\ \A j \in 1..Len(task) : task[j] # "failed"

\* a submitted future waits in the pool's queue until a worker is free;
\* nothing in process_areas cancels it (create_csb_v2.py:178-195)
Runnable(i) == task[i] = "pending"
Finished == {i \in 1..Len(task) : task[i] \in {"succeeded", "failed"}}

\* the body of "for future in done" for one future; st is
\* <<completed, printed, raised>>.  A line is kept with the future it is about
\* (the text printed names only the area).
ReportOne(i, st) ==
    LET c  == st[1] + 1
        pr == st[2]
        progress == <<"progress", c, total>>
    IN IF st[3] THEN st
       ELSE IF task[i] = "succeeded"
            THEN <<c, pr \o << <<"result", areas[i], i>>, progress >>, FALSE>>
       ELSE IF Caught(TaskException)
            THEN <<c, pr \o << <<"failed", areas[i], i>>, progress >>, FALSE>>
       ELSE <<c, pr, TRUE>>

RECURSIVE ReportAll(_, _)
ReportAll(order, st) ==
    IF order = <<>> THEN st
    ELSE ReportAll(Tail(order), ReportOne(Head(order), st))

Orders(S) == {o \in [1..Cardinality(S) -> S] : \A i, j \in DOMAIN o : o[i] = o[j] => i = j}

\* every area taken as discovered
InAreaListAlways(a, area_list) == TRUE

\* args.partial_area in areas (create_csb_v2.py:239)
InAreaList(a, area_list) == \E i \in DOMAIN area_list : area_list[i] = a

\* main up to the call of process_areas: setup_processing may raise (ok),
\* else it sizes the pool; a partial area that is not in the list raises
\* ValueError (0 is "None")
M_Setup ==
    /\ spc = "setup"
    /\ \E ok \in BOOLEAN :
          IF ~ok
          THEN /\ spc' = "exited"
               /\ main_result' = "error_msg"
               /\ UNCHANGED <<areas, task, cpu_count_val>>
          ELSE /\ cpu_count_val' = PoolSize(cpu_prct, units)
               /\ IF partial_area # 0 /\ ~InAreaList(partial_area, areas)
                  THEN /\ spc' = "exited"
                       /\ main_result' = "error_msg"
                       /\ UNCHANGED <<areas, task>>
                  ELSE /\ spc' = "submitting"
                       /\ areas' = IF partial_area = 0 THEN areas
                                   ELSE <<partial_area>>
                       /\ task' = [i \in DOMAIN areas' |-> "none"]
                       /\ UNCHANGED main_result
    /\ UNCHANGED <<submitted, futures, completed, total, printed, cpu_prct,
                   units, partial_area, discovered, workerVars, error_log, written>>
    /\ UNCHANGED <<elimVars, procVars>>

\* executor.submit for the next area; after the last one completed, futures
\* and total are set
S_Submit ==
    /\ spc = "submitting"
    /\ IF submitted < Len(areas)
       THEN /\ submitted' = submitted + 1
            /\ task' = [task EXCEPT ![submitted + 1] = "pending"]
            /\ UNCHANGED <<spc, futures, completed, total>>
       ELSE /\ completed' = 0
            /\ futures' = 1..Len(areas)
            /\ total' = Cardinality(futures')
            /\ spc' = "waiting"
            /\ UNCHANGED <<submitted, task>>
    /\ UNCHANGED <<areas, cpu_count_val, printed, main_result, cpu_prct, units, partial_area, discovered, workerVars,
                   error_log, written>>
    /\ UNCHANGED <<elimVars, procVars>>

\* a free worker of the pool takes a pending task
W_Start ==
    /\ \E i \in 1..Len(task) :
          /\ Runnable(i)
          /\ Cardinality(Running) < cpu_count_val
          /\ task' = [task EXCEPT ![i] = "running"]
    /\ UNCHANGED <<spc, areas, cpu_count_val, submitted, futures, completed,
                   total, printed, main_result, cpu_prct, units, partial_area, discovered, workerVars, error_log,
                   written>>
    /\ UNCHANGED <<elimVars, procVars>>

RECURSIVE WriteAll(_, _)
WriteAll(content, msgs) ==
    IF msgs = <<>> THEN content
    ELSE WriteAll(WriteText(content, Head(msgs)), Tail(msgs))

\* process_csb returns "Finished <area>" or raises ProcessingError
\* (create_csb_v2.py:83, 89); which of the two is an input of process_areas
W_Finish ==
    /\ \E i \in Running, ok \in BOOLEAN, in_process \in BOOLEAN :
          /\ task' = [task EXCEPT ![i] = IF ok THEN "succeeded" ELSE "failed"]
          /\ IF ok
             THEN UNCHANGED <<error_log, written>>
             ELSE LET msgs == ErrorMessages(areas[i], in_process) IN
                  /\ error_log' = WriteAll(error_log, msgs)
                  /\ written' = written \cup {msgs[k] : k \in DOMAIN msgs}
    /\ UNCHANGED <<spc, areas, cpu_count_val, submitted, futures, completed,
                   total, printed, main_result, cpu_prct, units, partial_area, discovered, workerVars>>
    /\ UNCHANGED <<elimVars, procVars>>

\* the waited set left as it was
NotDoneAll(fs, done) == fs

\* done, futures = wait(futures, return_when=FIRST_COMPLETED)
\* (create_csb_v2.py:186): the futures not yet done
NotDone(fs, done) == fs \ done

\* one turn of "while futures": wait returns the futures that are done (at
\* least one) and each is reported; the order of a set is not fixed
S_WaitReport ==
    /\ spc = "waiting"
    /\ futures # {}
    /\ LET done == futures \cap Finished IN
          /\ done # {}
          /\ \E order \in Orders(done) :
                LET st == ReportAll(order, <<completed, printed, FALSE>>) IN
                   /\ completed' = st[1]
                   /\ printed' = st[2]
                   /\ futures' = NotDone(futures, done)
                   /\ IF st[3]
                      THEN spc' = "exited" /\ main_result' = "error_msg"
                      ELSE UNCHANGED <<spc, main_result>>
    /\ UNCHANGED <<areas, cpu_count_val, submitted, task, total, cpu_prct,
                   units, partial_area, discovered, workerVars, error_log, written>>
    /\ UNCHANGED <<elimVars, procVars>>

\* futures is empty: process_areas returns, main returns None
M_Return ==
    /\ spc = "waiting"
    /\ futures = {}
    /\ spc' = "exited"
    /\ main_result' = "None"
    /\ UNCHANGED <<areas, cpu_count_val, submitted, task, futures, completed,
                   total, printed, cpu_prct, units, partial_area, discovered, workerVars, error_log, written>>
    /\ UNCHANGED <<elimVars, procVars>>

\* what the *.tif files of the start year's directory may be: <<a, rest>> is
\* the file "<a>_<start_year><rest>.tif".  One file for each of the first n
\* areas, or two files that begin with the same area and year.
RasterDirs ==
    {{<<i, "">> : i \in 1..n} : n \in 0..MaxAreas}
    \cup {{<<1, "">>, <<1, "b">>}}

\* p.stem.split(f"_{start_year}")[0] (create_csb_v2.py:127)
AreaOfStem(stem) == stem[1]

\* get_area_list (create_csb_v2.py:110-129): the area of every file, sorted
RECURSIVE get_area_list(_)
get_area_list(files) ==
    IF files = {} THEN <<>>
    ELSE LET p == CHOOSE q \in files :
                     \A r \in files : AreaOfStem(q) <= AreaOfStem(r)
         IN <<AreaOfStem(p)>> \o get_area_list(files \ {p})

\* The partitions themselves are not followed here.  Longer lists of areas
\* are tried with the whole machine (cpu_prct 1.0), every other fraction with
\* up to two areas.
InitSched ==
    /\ scratch = {}
    /\ baseContent = [fc \in {} |-> NoContent]
    /\ max_retries = default_max_retries
    /\ elimination_areas = DEFAULT_ELIMINATION_AREAS
    /\ epc = "idle"
    /\ InitEngineIdle
    /\ InitNoProcessor
    /\ spc = "setup"
    /\ \E files \in RasterDirs : areas = get_area_list(files)
    /\ discovered = areas
    /\ partial_area \in 0..MaxAreas
    /\ cpu_prct \in CpuPrctValues
    /\ units \in 1..MaxWorkers
    /\ cpu_prct # 100 => Len(areas) <= 2
    /\ cpu_count_val = 0
    /\ error_log = <<>>
    /\ written = {}
    /\ submitted = 0
    /\ task = <<>>
    /\ futures = {}
    /\ completed = 0
    /\ total = 0
    /\ printed = <<>>
    /\ main_result = "running"
    /\ InitNoWorker

NextSched ==
    \/ M_Setup
    \/ S_Submit
    \/ W_Start
    \/ W_Finish
    \/ S_WaitReport
    \/ M_Return

SpecSched == InitSched /\ [][NextSched]_vars

\* the same with the pool's workers at work: a free worker takes a queued
\* task, and a partition's pipeline, bounded by its retries, ends
SpecSchedFair ==
    InitSched /\ [][NextSched]_vars /\ WF_vars(W_Start) /\ WF_vars(W_Finish)

(***************************************************************************)
(* process_layer of the original program                                    *)
(* (csb-project/CSB-Run/CSB-Run/create_csb.py)                              *)
(***************************************************************************)
\* most turns of the loop of process_layer that are followed
MaxIterations == 3

\* the tokens "temp<i>" of the layer names process_layer makes
TempTokens == {"temp" \o ToString(i) : i \in 1..MaxIterations}

\* temp_name, rf"{scratch}\{layer_name}_temp_{shape_area}_{i}"
\* (create_csb.py:231)
OrigTempName(base, area, i) == base \o <<"temp", ToString(area), ToString(i)>>

\* f"{layer_name}_temp{i}_Layer" (create_csb.py:242)
OrigLayerName(base, i) == base \o <<"temp" \o ToString(i), "Layer">>

\* new_layer_name[: new_layer_name.find("_temp")] when "_temp" is in the name
\* (create_csb.py:209-210)
OrigBase(name) ==
    LET temps == {k \in 2..Len(name) : name[k] \in TempTokens \cup {"temp"}} IN
    IF temps = {} THEN name
    ELSE SubSeq(name, 1, (CHOOSE k \in temps : \A j \in temps : k <= j) - 1)

origRest == <<scratch, baseContent, max_retries, elimination_areas, e_retry,
              feature_layers, fl_idx, size_idx, lastC, recent_layer, p_retry,
              firstCount, callPasses, passFails, fcSkipped, sizesSkipped,
              totalPasses, repaired, procVars, schedVars>>

\* except Exception: return None (create_csb.py:259-261)
PL_Failed ==
    /\ epc' = "pl_returned"
    /\ last_iteration_name' = NoName
    /\ lastEvent' = "failed"

\* one turn of "while not done" up to the test of the count
\* (create_csb.py:214-227, 253-257)
PL_Select ==
    /\ epc = "pl_select"
    /\ iteration < MaxIterations
    /\ iteration' = iteration + 1
    /\ \E ok \in BOOLEAN :
          IF ~ok
          THEN PL_Failed /\ UNCHANGED poly_count
          ELSE LET n == GetCount(curC, shape_area) IN
               /\ poly_count' = n
               /\ IF n > 0
                  THEN /\ epc' = "pl_eliminating"
                       /\ lastEvent' = "selected"
                       /\ UNCHANGED last_iteration_name
                  ELSE /\ epc' = "pl_returned"
                       /\ lastEvent' = "break_zero"
                       /\ last_iteration_name' = new_layer_name
    /\ UNCHANGED <<scratch, new_layer_name, curC, outC, previous_poly_count,
                   elimCalls, origRest>>

\* Eliminate into temp_name, then the name of the layer to make
\* (create_csb.py:231-242)
PL_Eliminate ==
    /\ epc = "pl_eliminating"
    /\ \E ok \in BOOLEAN :
          IF ~ok
          THEN /\ PL_Failed
               /\ UNCHANGED <<scratch, new_layer_name, curC, outC, elimCalls>>
          ELSE \E out \in Contents :
               /\ scratch' = scratch
                     \cup {OrigTempName(OrigBase(layer_name), shape_area, iteration)}
               /\ new_layer_name' = OrigLayerName(OrigBase(layer_name), iteration)
               /\ curC' = NoContent
               /\ outC' = out
               /\ elimCalls' = elimCalls + 1
               /\ epc' = "pl_make_layer"
               /\ lastEvent' = "eliminated"
               /\ UNCHANGED last_iteration_name
    /\ UNCHANGED <<baseContent, max_retries, elimination_areas, e_retry,
                   feature_layers, fl_idx, size_idx, lastC, recent_layer,
                   p_retry, firstCount, callPasses, passFails, fcSkipped,
                   sizesSkipped, totalPasses, repaired, iteration, poly_count,
                   previous_poly_count, procVars, schedVars>>

\* MakeFeatureLayer of temp_name (create_csb.py:245-252); the count of the
\* turn is kept as the previous one (history: process_layer keeps none)
PL_MakeLayer ==
    /\ epc = "pl_make_layer"
    /\ \E ok \in BOOLEAN :
          IF ~ok
          THEN PL_Failed /\ UNCHANGED <<curC, previous_poly_count>>
          ELSE /\ curC' = outC
               /\ previous_poly_count' = poly_count
               /\ epc' = "pl_select"
               /\ lastEvent' = "layer_made"
               /\ UNCHANGED last_iteration_name
    /\ UNCHANGED <<new_layer_name, outC, iteration, poly_count, elimCalls,
                   origRest>>

(***************************************************************************)
(* SpecOrig: one call of process_layer at one of the thresholds, on the     *)
(* layer of an input feature class or on a layer an earlier call returned,  *)
(* of any content.                                                          *)
(***************************************************************************)
InitOrig ==
    /\ scratch = {}
    /\ baseContent = [fc \in {} |-> NoContent]
    /\ max_retries = default_max_retries
    /\ elimination_areas = DEFAULT_ELIMINATION_AREAS
    /\ epc = "pl_select"
    /\ e_retry = 0
    /\ feature_layers \in {<<FC1>>, <<OrigLayerName(FC1, 1)>>}
    /\ fl_idx = 1
    /\ size_idx \in 1..Len(elimination_areas)
    /\ last_iteration_name = NoName
    /\ lastC = NoContent
    /\ recent_layer = NoName
    /\ p_retry = 0
    /\ new_layer_name = feature_layers[1]
    /\ curC \in Contents
    /\ outC = NoContent
    /\ iteration = 0
    /\ previous_poly_count = Inf
    /\ poly_count = 0
    /\ lastEvent = "none"
    /\ elimCalls = 0
    /\ firstCount = 0
    /\ callPasses = 0
    /\ passFails = 0
    /\ fcSkipped = {}
    /\ sizesSkipped = 0
    /\ totalPasses = 0
    /\ repaired = FALSE
    /\ InitNoProcessor
    /\ InitNoScheduler
    /\ InitNoErrors
    /\ InitNoWorker

NextOrig ==
    \/ PL_Select
    \/ PL_Eliminate
    \/ PL_MakeLayer

SpecOrig == InitOrig /\ [][NextOrig]_vars

(***************************************************************************)
(* The original process_csb (csb-project create_csb.py) as one worker of    *)
(* the ProcessPoolExecutor runs it: the pool hands the worker one area      *)
(* after another, and the worker's interpreter, with its root logger, lives *)
(* on from one call to the next.                                            *)
(***************************************************************************)
\* the elimination loop is followed for this many turns
MaxOrigAttempts == 6

\* the area the running process_csb was called with
w_area == w_queue[w_idx]

\* a log record: its kind and the area in its text
Record(kind, area) == <<kind, area>>

\* logger.info / logger.error on the root logger: the record goes to every
\* handler added to it (logger.py:19, 26, 32)
Emit(files, rec) ==
    [f \in DOMAIN files |->
        IF f \in root_handlers THEN files[f] \cup {rec} ELSE files[f]]

\* f = open(error_path, "a"); f.write(...) (create_csb.py:165-168)
AppendText(content, msg) == Append(content, msg)

\* process_csb is left: by return, or by what it raised
OC_Leave(how) ==
    /\ w_results' = Append(w_results, how)
    /\ opc' = "idle"

\* the pool calls process_csb with the next area; initialize_logger adds a
\* console handler and a FileHandler for log/<area>.log to logging.getLogger()
\* (create_csb.py:31-36, logger.py:16-34)
OC_InitializeLogger ==
    /\ opc = "idle"
    /\ w_idx < Len(w_queue)
    /\ w_idx' = w_idx + 1
    /\ root_handlers' = root_handlers \cup {w_queue[w_idx + 1]}
    /\ o_attempts' = 0
    /\ opc' = "pre_process"
    /\ UNCHANGED <<w_queue, w_results, log_files, error_log, written,
                   elimVars, procVars, schedCore>>

\* the stages before elimination (create_csb.py:38-140): they log their
\* progress; an engine call that raises ends process_csb
OC_PreProcess ==
    /\ opc = "pre_process"
    /\ log_files' = Emit(log_files, Record("info", w_area))
    /\ \E ok \in BOOLEAN :
          IF ok
          THEN opc' = "eliminate" /\ UNCHANGED w_results
          ELSE OC_Leave("raised")
    /\ UNCHANGED <<w_queue, w_idx, o_attempts, root_handlers, error_log,
                   written, elimVars, procVars, schedCore>>

\* one turn of "while not eliminate_success" (create_csb.py:142-168):
\* csb_elimination returns, or raises and the failure is logged and appended
\* to the error file
OC_Eliminate ==
    /\ opc = "eliminate"
    /\ o_attempts < MaxOrigAttempts
    /\ o_attempts' = o_attempts + 1
    /\ \E ok \in BOOLEAN :
          IF ok
          THEN /\ log_files' = Emit(log_files, Record("info", w_area))
               /\ opc' = "finish"
               /\ UNCHANGED <<error_log, written>>
          ELSE /\ log_files' = Emit(Emit(log_files, Record("info", w_area)),
                                    Record("error", w_area))
               /\ error_log' = AppendText(error_log, <<"eliminate", w_area>>)
               /\ written' = written \cup {<<"eliminate", w_area>>}
               /\ opc' = "repair"
    /\ UNCHANGED <<w_queue, w_idx, w_results, root_handlers, elimVars,
                   procVars, schedCore>>

\* repair_topology in the except clause (create_csb.py:169, gdb.py:89-118):
\* found is whether the listing gave an area to repair (repair_area is
\* unbound otherwise), ok whether RepairGeometry did not raise.  What it
\* raises leaves process_csb; when it returns the loop turns again.
OC_RepairTopology ==
    /\ opc = "repair"
    /\ \E found \in BOOLEAN, ok \in BOOLEAN :
          /\ log_files' = IF found
                          THEN Emit(log_files, Record("repair", w_area))
                          ELSE log_files
          /\ IF found /\ ok
             THEN opc' = "eliminate" /\ UNCHANGED w_results
             ELSE OC_Leave("raised")
    /\ UNCHANGED <<w_queue, w_idx, o_attempts, root_handlers, error_log,
                   written, elimVars, procVars, schedCore>>

\* the end of process_csb (create_csb.py:183-197)
OC_Finish ==
    /\ opc = "finish"
    /\ log_files' = Emit(log_files, Record("info", w_area))
    /\ OC_Leave("Finished")
    /\ UNCHANGED <<w_queue, w_idx, o_attempts, root_handlers, error_log,
                   written, elimVars, procVars, schedCore>>

(***************************************************************************)
(* SpecWorker: a worker that is handed one area, or two different ones.     *)
(***************************************************************************)
WorkerQueues ==
    {<<a>> : a \in 1..MaxAreas}
    \cup {q \in (1..MaxAreas) \X (1..MaxAreas) : q[1] # q[2]}

InitWorker ==
    /\ scratch = {}
    /\ baseContent = [fc \in {} |-> NoContent]
    /\ max_retries = default_max_retries
    /\ elimination_areas = DEFAULT_ELIMINATION_AREAS
    /\ epc = "idle"
    /\ InitEngineIdle
    /\ InitNoProcessor
    /\ InitNoScheduler
    /\ InitNoErrors
    /\ w_queue \in WorkerQueues
    /\ w_idx = 0
    /\ w_results = <<>>
    /\ opc = "idle"
    /\ o_attempts = 0
    /\ root_handlers = {}
    /\ log_files = [f \in 1..MaxAreas |-> {}]

NextWorker ==
    \/ OC_InitializeLogger
    \/ OC_PreProcess
    \/ OC_Eliminate
    \/ OC_RepairTopology
    \/ OC_Finish

SpecWorker == InitWorker /\ [][NextWorker]_vars

(***************************************************************************)
(* csb_elimination and process_layer of csb-udl/CSB_Run/create_csb.py: the  *)
(* thresholds are applied in turn to one input layer, each by one call of  *)
(* process_layer, which returns "" when anything in it raised.              *)
(***************************************************************************)
\* elimination_areas (create_csb.py:117), cut to three thresholds
UdlAreas == <<1000, 1900, 8100>>

\* if last_iteration_name: new_layer_name = last_iteration_name
\* else: new_layer_name = layer_name (create_csb.py:49-52)
UdlStartLayer(last, base) == IF last # NoName THEN last ELSE base

\* poly_count > 0 and (previous_poly_count > poly_count) (create_csb.py:70)
UdlGoesOn(count, previous) == count > 0 /\ previous > count

ulRest == <<baseContent, max_retries, elimination_areas, e_retry,
            feature_layers, fl_idx, p_retry, firstCount, callPasses,
            passFails, fcSkipped, sizesSkipped, totalPasses, repaired,
            procVars, schedVars>>

\* process_layer returns result, a layer of content rc or "" (NoName), to
\* csb_elimination, which keeps it as last_iteration_name and calls
\* process_layer for the next size (create_csb.py:100, 104, 131-133, 49-56)
UL_Return(result, rc) ==
    /\ last_iteration_name' = result
    /\ lastC' = rc
    /\ outC' = NoContent
    /\ iteration' = 0
    /\ previous_poly_count' = Inf
    /\ poly_count' = 0
    /\ IF size_idx < Len(elimination_areas)
       THEN /\ size_idx' = size_idx + 1
            /\ new_layer_name' = UdlStartLayer(result, layer_name)
            /\ curC' = IF result # NoName THEN rc ELSE baseContent[layer_name]
            /\ epc' = "ul_select"
       ELSE /\ size_idx' = size_idx
            /\ new_layer_name' = NoName
            /\ curC' = NoContent
            /\ epc' = "ul_done"

\* one turn of "while not done" up to the test of the count
\* (create_csb.py:57-70, 95-100)
UL_Select ==
    /\ epc = "ul_select"
    /\ \E ok \in BOOLEAN :
          IF ~ok
          THEN UL_Return(NoName, NoContent) /\ lastEvent' = "failed"
          ELSE LET n == GetCount(curC, shape_area) IN
               IF UdlGoesOn(n, previous_poly_count)
               THEN /\ iteration' = iteration + 1
                    /\ poly_count' = n
                    /\ epc' = "ul_eliminating"
                    /\ lastEvent' = "selected"
                    /\ UNCHANGED <<size_idx, last_iteration_name, lastC,
                                   new_layer_name, curC, outC,
                                   previous_poly_count>>
               ELSE /\ UL_Return(new_layer_name, curC)
                    /\ lastEvent' = IF n = 0 THEN "break_zero" ELSE "break_stall"
    /\ UNCHANGED <<scratch, recent_layer, elimCalls, ulRest>>

\* Eliminate into temp_name, then the name of the layer to make
\* (create_csb.py:73-84)
UL_Eliminate ==
    /\ epc = "ul_eliminating"
    /\ \E ok \in BOOLEAN :
          IF ~ok
          THEN /\ UL_Return(NoName, NoContent)
               /\ lastEvent' = "failed"
               /\ UNCHANGED <<scratch, elimCalls>>
          ELSE \E out \in Contents :
               /\ scratch' = scratch \cup {TempName(layer_name, shape_area, iteration)}
               /\ new_layer_name' = LayerName(layer_name, shape_area, iteration)
               /\ curC' = NoContent
               /\ outC' = out
               /\ elimCalls' = elimCalls + 1
               /\ epc' = "ul_make_layer"
               /\ lastEvent' = "eliminated"
               /\ UNCHANGED <<size_idx, last_iteration_name, lastC, iteration,
                              previous_poly_count, poly_count>>
    /\ UNCHANGED <<recent_layer, ulRest>>

\* MakeFeatureLayer of temp_name, then previous_poly_count
\* (create_csb.py:85-94)
UL_MakeLayer ==
    /\ epc = "ul_make_layer"
    /\ \E ok \in BOOLEAN :
          IF ~ok
          THEN /\ UL_Return(NoName, NoContent)
               /\ lastEvent' = "failed"
               /\ UNCHANGED recent_layer
          ELSE /\ curC' = outC
               /\ previous_poly_count' = poly_count
               /\ recent_layer' = new_layer_name
               /\ epc' = "ul_select"
               /\ lastEvent' = "layer_made"
               /\ UNCHANGED <<size_idx, last_iteration_name, lastC,
                              new_layer_name, outC, iteration, poly_count>>
    /\ UNCHANGED <<scratch, elimCalls, ulRest>>

(***************************************************************************)
(* SpecUdl: csb_elimination on one input layer of any content, from         *)
(* "last_iteration_name = layer_name" on (create_csb.py:130).               *)
(***************************************************************************)
InitUdl ==
    /\ scratch = {}
    /\ baseContent \in [{FC1} -> Contents]
    /\ max_retries = default_max_retries
    /\ elimination_areas = UdlAreas
    /\ epc = "ul_select"
    /\ e_retry = 0
    /\ feature_layers = <<FC1>>
    /\ fl_idx = 1
    /\ size_idx = 1
    /\ last_iteration_name = FC1
    /\ lastC = baseContent[FC1]
    /\ recent_layer = FC1
    /\ p_retry = 0
    /\ new_layer_name = UdlStartLayer(FC1, FC1)
    /\ curC = baseContent[FC1]
    /\ outC = NoContent
    /\ iteration = 0
    /\ previous_poly_count = Inf
    /\ poly_count = 0
    /\ lastEvent = "none"
    /\ elimCalls = 0
    /\ firstCount = 0
    /\ callPasses = 0
    /\ passFails = 0
    /\ fcSkipped = {}
    /\ sizesSkipped = 0
    /\ totalPasses = 0
    /\ repaired = FALSE
    /\ InitNoProcessor
    /\ InitNoScheduler
    /\ InitNoErrors
    /\ InitNoWorker

NextUdl ==
    \/ UL_Select
    \/ UL_Eliminate
    \/ UL_MakeLayer

SpecUdl == InitUdl /\ [][NextUdl]_vars

(***************************************************************************)
(* Properties of the elimination engine (SpecElim)                          *)
(***************************************************************************)
SameThreshold == fl_idx' = fl_idx /\ size_idx' = size_idx /\ p_retry' = p_retry

C1_Step ==
    /\ (epc = "select" /\ lastEvent' \in {"break_zero", "break_stall", "selected"}) =>
          LET n == GetCount(curC, shape_area) IN
          IF n = 0 \/ n >= previous_poly_count
          THEN /\ lastEvent' \in {"break_zero", "break_stall"}
               /\ scratch' = scratch
               /\ epc' \in {"select", "returned"}
               /\ epc' = "returned" \/ <<fl_idx', size_idx'>> # <<fl_idx, size_idx>>
               /\ size_idx < Len(elimination_areas) =>
                     /\ fl_idx' = fl_idx
                     /\ size_idx' = size_idx + 1
                     /\ last_iteration_name' = new_layer_name
                     /\ new_layer_name' = new_layer_name
                     /\ lastC' = curC
                     /\ curC' = curC
          ELSE /\ lastEvent' = "selected"
               /\ epc' = "eliminating"
               /\ poly_count' = n
               /\ SameThreshold
    /\ (epc = "eliminating" /\ lastEvent' = "eliminated") =>
          /\ epc' = "make_layer"
          /\ elimCalls' = elimCalls + 1
          /\ SameThreshold
    /\ (epc = "make_layer" /\ lastEvent' = "layer_made") =>
          /\ epc' = "select"
          /\ previous_poly_count' = poly_count
          /\ SameThreshold

\* C1: in _eliminate_iteration a selection that is empty, or not smaller than
\* the previous one at this threshold (infinity at first), ends the threshold
\* with no eliminate call and hands the current layer on unchanged; any other
\* selection is followed by one eliminate and one make-layer, is recorded as
\* previous, and the loop selects again at the same threshold.
C1_StallGuardDecides == [][C1_Step]_vars

\* the threshold 1000 ended on a stall after one eliminate, and the layer of
\* that iteration is handed to threshold 1900
C1_Witness ==
    /\ lastEvent = "break_stall"
    /\ size_idx = 2
    /\ last_iteration_name = LayerName(layer_name, 1000, 1)
    /\ new_layer_name = last_iteration_name

\* C2: one run of the iteration loop makes at most c eliminate calls and c
\* loop turns, c the count selected in its first iteration, whatever the
\* engine's eliminate writes.
C2_AtMostFirstCountEliminates ==
    /\ elimCalls + (IF epc = "eliminating" THEN 1 ELSE 0) <= firstCount
    /\ iteration <= firstCount

\* c = MaxPolys eliminate calls were made and the engine still reports
\* polygons at or under the threshold
C2_Witness ==
    /\ epc = "select"
    /\ firstCount = MaxPolys
    /\ elimCalls = firstCount
    /\ GetCount(curC, shape_area) >= 1

\* C3: with max_retries m >= 1, after k failed passes eliminate returns only
\* after exactly k+1 passes (k+1 <= m) and raises only after exactly m
\* passes, all failed; it never starts a pass beyond m.
C3_RetryBound ==
    max_retries >= 1 =>
       /\ callPasses <= max_retries
       /\ epc = "list_layers" => callPasses = passFails + 1
       /\ epc = "returned" => callPasses = passFails + 1 /\ passFails < max_retries
       /\ epc = "raised" => callPasses = max_retries /\ passFails = max_retries

\* k = 1 failed pass, m = 2: returned after the second pass
C3_Witness ==
    /\ epc = "returned"
    /\ max_retries = 2
    /\ passFails = 1
    /\ callPasses = 2

\* C6: when eliminate returns without raising, every listed feature class
\* was given a layer and no threshold was given up on after its retries.
C6_NoFailureSwallowed ==
    (epc = "returned" /\ callPasses >= 1) => fcSkipped = {} /\ sizesSkipped = 0

\* C11: in a pass over a layer the engine never selects against a threshold
\* smaller than one it has already processed on that layer, whatever the
\* configured elimination_areas.
C11_AscendingThresholds ==
    epc \in {"select", "eliminating", "make_layer"} =>
       \A i \in 1..(size_idx - 1) :
          elimination_areas[i] < elimination_areas[size_idx]

\* the polygons of content c whose area is at most T
PolysAtMost(c, T) == SumOver(c, {a \in Areas : a <= T})

BreakStep == epc = "select" /\ lastEvent' \in {"break_zero", "break_stall"}

\* C12 as stated: whenever the convergence test ends a threshold T, the
\* current layer holds no polygon of area <= T, whatever Eliminate wrote.
C12_NoSmallPolygonLeft ==
    [][BreakStep => PolysAtMost(curC, shape_area) = 0]_vars

\* C12, amended: whenever the convergence test ends a threshold T, either the
\* current layer holds no polygon of area <= T, or at least one Eliminate was
\* run at T and after the last one the layer still holds at least as many
\* polygons of area <= T as were selected before it (the stall guard).
C12_NoSmallPolygonLeftUnlessStalled ==
    [][BreakStep =>
          \/ PolysAtMost(curC, shape_area) = 0
          \/ /\ elimCalls >= 1
             /\ PolysAtMost(curC, shape_area) >= previous_poly_count]_vars

\* the last threshold ended on an empty selection after an Eliminate, and the
\* layer carried out holds nothing at or under the threshold
C12_Witness ==
    /\ epc = "returned"
    /\ lastEvent = "break_zero"
    /\ elimCalls >= 1
    /\ size_idx = Len(elimination_areas)
    /\ PolysAtMost(lastC, elimination_areas[size_idx]) = 0

Minimal(c) ==
    \A k \in 1..Len(elimination_areas) : PolysAtMost(c, elimination_areas[k]) = 0

\* C13: on a layer that holds no polygon of area <= any threshold, a pass
\* reaches no Eliminate and no MakeFeatureLayer, writes no intermediate
\* feature class of that layer, and carries the input layer itself from
\* threshold to threshold and out of the last one.
C13_MinimalLayerUntouched ==
    (/\ fl_idx >= 1
     /\ epc \in {"select", "eliminating", "make_layer", "returned"}
     /\ Minimal(baseContent[layer_name])) =>
       /\ epc \in {"select", "returned"}
       /\ elimCalls = 0
       /\ iteration = 0
       /\ new_layer_name \in {NoName, layer_name}
       /\ last_iteration_name = layer_name
       /\ \A k \in 1..Len(elimination_areas), it \in 1..Inf :
             TempName(layer_name, elimination_areas[k], it) \notin scratch

\* a pass over one feature class holding only a polygon above every
\* threshold has returned, with no threshold skipped
C13_Witness ==
    /\ epc = "returned"
    /\ fl_idx = 1
    /\ baseContent[FC1][8101] >= 1
    /\ Minimal(baseContent[FC1])
    /\ sizesSkipped = 0
    /\ last_iteration_name = FC1
    /\ scratch = {FC1}

\* C14: the count that goes on to Eliminate is the number of polygons of the
\* current layer whose area is <= T, those of area exactly T included and
\* those of a greater area not.
C14_InclusiveThreshold ==
    epc = "eliminating" => poly_count = PolysAtMost(curC, shape_area)

\* a layer with a polygon of area exactly 1000 and one above every threshold,
\* selected at threshold 1000: exactly the first is counted
C14_Witness ==
    /\ epc = "eliminating"
    /\ shape_area = 1000
    /\ curC[1000] = 1
    /\ curC[8101] = 1
    /\ poly_count = 1

\* C23: every Eliminate writes its output feature class under a name that no
\* feature class of the scratch workspace has yet, also in an iteration run
\* again after a failure: nothing written before is written over.
C23_NamesNeverReused ==
    [][(epc = "eliminating" /\ lastEvent' = "eliminated") =>
          TempName(layer_name, shape_area, iteration) \notin scratch]_vars

C7_AtMostFivePasses == totalPasses <= processor_max_retries

\* C8: every elimination pass other than the first starts only after a
\* geometry-repair call made since the failure of the previous pass.
C8_RepairBeforeEveryRetry ==
    [][(totalPasses' > totalPasses /\ totalPasses >= 1) => repaired']_vars

\* the engine operations and the workspace set-up a partition can reach
\* C9: when the raster of some year of the range is missing, file resolution
\* is run once and fails the partition: no workspace is initialized, no
\* engine stage is started, and no elimination pass or repair is made.
C9_MissingYearStopsAtResolution ==
    (\E year \in Years : year \notin present) =>
       /\ ppc \in {"get_year_files", "failed"}
       /\ stagesRun \in {<<>>, <<"get_year_files">>}
       /\ stagesOk = {}
       /\ epc = "idle"
       /\ totalPasses = 0
       /\ repairCalls = 0
       /\ attempt_count = 0 /\ pr_retry = 0

\* the second year is missing and the partition has failed at resolution
C9_Witness ==
    /\ present = {1}
    /\ ppc = "failed"
    /\ stagesRun = <<"get_year_files">>

\* C10: the stages of process start in the fixed order, each once, each
\* only after the one before it completed, and after a failed stage no
\* other stage starts.
C10_StagesInOrder ==
    /\ Len(stagesRun) <= Len(StageOrder)
    /\ stagesRun = SubSeq(StageOrder, 1, Len(stagesRun))
    /\ \A i \in 1..Len(stagesRun) :
          i < Len(stagesRun) => stagesRun[i] \in stagesOk
    /\ stagesOk \subseteq {stagesRun[i] : i \in 1..Len(stagesRun)}
    /\ ppc = "failed" =>
          /\ stagesRun # <<>>
          /\ stagesRun[Len(stagesRun)] \notin stagesOk
    /\ (ppc \in {StageOrder[i] : i \in 1..Len(StageOrder)} /\ ppc \notin stagesOk
        /\ ~(ppc = "add_field" /\ attempt_count > 0)
        /\ ~(ppc = "eliminate" /\ pr_retry > 0)) =>
          ppc = StageOrder[Len(stagesRun) + 1]

\* every stage has started, in order, and elimination, the last, has failed
C10_Witness ==
    /\ stagesRun = StageOrder
    /\ ppc = "failed"
    /\ stagesOk = {StageOrder[i] : i \in 1..(Len(StageOrder) - 1)}

\* C15: _add_count_field calls add_field at most 5 times; it goes on to
\* calculate the field only after a call whose field list held COUNT0, that
\* call being the one after the k <= 4 calls that lacked it; and it fails
\* the partition only after exactly 5 calls, all lacking COUNT0.
C15_AddFieldAttempts ==
    /\ addFieldCalls <= 5
    /\ ppc = "add_field" => addFieldCalls = attempt_count /\ attempt_count <= 4
    /\ (\E i \in 1..Len(stagesRun) : stagesRun[i] = "calculate_field") =>
          /\ "add_field" \in stagesOk
          /\ attempt_count <= 4
          /\ addFieldCalls = attempt_count + 1
    /\ (ppc = "failed" /\ stagesRun # <<>>
        /\ stagesRun[Len(stagesRun)] = "add_field") =>
          /\ "add_field" \notin stagesOk
          /\ attempt_count = 5
          /\ addFieldCalls = 5

\* COUNT0 was missing on 4 calls and seen on the fifth: the field was
\* calculated
C15_Witness ==
    /\ attempt_count = 4
    /\ addFieldCalls = 5
    /\ "calculate_field" \in stagesOk

C21_Step ==
    ppc = "failed" =>
       /\ ppc' = "failed"
       /\ epc' = epc
       /\ totalPasses' = totalPasses
       /\ repairCalls' = repairCalls
       /\ pr_retry' = pr_retry
       /\ outcome' \in {"raising", TaskException}

InputLayers ==
    IF "project" \in stagesOk THEN {<<ToString(config_area), "In">>} ELSE {}

\* C22: a pass that follows a failed pass starts at the first threshold on
\* the feature classes of the configured input workspace: the feature classes
\* it lists, whether it makes a layer of them or skips them, are exactly those
\* of the input workspace.
C22_PassesReadInputWorkspace ==
    totalPasses >= 2 =>
       /\ lastEvent = "list_ok" =>
             /\ {feature_layers[i] : i \in DOMAIN feature_layers} \cup fcSkipped
                   = InputLayers
             /\ size_idx = 1
             /\ new_layer_name = feature_layers[1]
       /\ lastEvent = "no_layers" => fcSkipped = InputLayers

StageIndex(stage) == CHOOSE i \in 1..Len(StageOrder) : StageOrder[i] = stage

\* where the elimination stage is within one attempt of _eliminate_polygons
AttemptRank ==
    IF ppc = "repair" THEN 40
    ELSE IF ppc = "eliminate" THEN 30
    ELSE IF epc = "call" THEN 25
    ELSE IF epc = "list_layers" THEN 10 + (max_retries - e_retry)
    ELSE 5

\* a bound on the steps process_csb has left: the stages to come, then the
\* attempts left to the loop the run is in, then the place in the attempt
Measure ==
    IF outcome \in {"Finished", TaskException} THEN 0
    ELSE IF outcome = "raising" THEN 1
    ELSE IF ppc = "failed" THEN 2
    ELSE IF ppc = "done" THEN 1
    ELSE IF ppc = "add_field"
    THEN 1000 * (10 - StageIndex(ppc)) + (max_attempts - attempt_count)
    ELSE IF ppc \in {"eliminate", "eliminating", "repair"}
    THEN 1000 + 100 * (processor_max_retries - pr_retry) + AttemptRank
    ELSE 1000 * (10 - StageIndex(ppc))

C28_FailureLoggedBeforeOutcome ==
    /\ outcome \in {"raising", TaskException} =>
          /\ ppc = "failed"
          /\ <<"process", config_area>> \in logged
          /\ <<"process", config_area>> \in written
    /\ outcome = "raising" => error_log = << <<"process", config_area>> >>
    /\ outcome = TaskException =>
          /\ <<"process_csb", config_area>> \in logged
          /\ <<"process_csb", config_area>> \in written
          /\ error_log = << <<"process_csb", config_area>> >>
    /\ ppc = "failed" => outcome \in {"none", "raising", TaskException}
    /\ \A msg \in logged \cup written : msg[2] = config_area

\* the combine stage failed; process and then process_csb logged and wrote
\* the failure, and ProcessingError is the outcome
C28_Witness ==
    /\ outcome = TaskException
    /\ stagesRun = <<"get_year_files", "initialize_gdbs", "combine">>
    /\ logged = {<<"process", config_area>>, <<"process_csb", config_area>>}
    /\ error_log = << <<"process_csb", config_area>> >>

(***************************************************************************)
(* Properties of repair_topology (SpecRepair)                               *)
(***************************************************************************)
\* the feature classes of the scratch workspace derived from sub-area a
Derived(a) ==
    {fc \in scratch : Len(fc) >= 2 /\ fc[1] = a[1] /\ fc[2] = a[2]}

SubAreas == {FC1, FC2, FC3}

\* C16: when repair_topology finds feature classes in the scratch workspace
\* it makes exactly one RepairGeometry call, and when one sub-area has
\* strictly fewer feature classes there than every other sub-area found,
\* the call is on the input feature <sub-area>_In of that sub-area.
C16_RepairsFewest ==
    /\ repairCalls <= 1
    /\ (ppc = "eliminate" /\ scratch # {}) => repairCalls = 1
    /\ repairCalls = 1 =>
          \A a \in SubAreas :
             (/\ Derived(a) # {}
              /\ \A b \in SubAreas \ {a} :
                    Derived(b) # {} =>
                       Cardinality(Derived(a)) < Cardinality(Derived(b))) =>
                repair_target = <<a[1], a[2], "In">>

\* A1_0 has three feature classes and A1_1 one: A1_1_In is repaired
C16_Witness ==
    /\ ppc = "eliminate"
    /\ Cardinality(Derived(FC1)) = 3
    /\ Cardinality(Derived(FC2)) = 1
    /\ Derived(FC3) = {}
    /\ repair_target = <<"A1", "1", "In">>

(***************************************************************************)
(* Properties of the scheduler (SpecSched)                                  *)
(***************************************************************************)
\* the futures process_areas has taken out of the waited set
Collected == IF total = 0 THEN {} ELSE (1..Len(areas)) \ futures

LinesOf(i) ==
    {k \in DOMAIN printed :
        printed[k][1] \in {"result", "failed"} /\ printed[k][3] = i}

\* C4: process_areas prints, for every partition it has collected, exactly
\* one line, the success line if its pipeline succeeded and the failure line
\* if it failed; it never raises because a partition failed; every collected
\* partition, failed or not, advances the tally by one; and it ends only
\* when every partition is collected, its last line being "n of n processed".
C4_FaultIsolation ==
    /\ \A i \in Collected :
          /\ Cardinality(LinesOf(i)) = 1
          /\ \E k \in LinesOf(i) :
                printed[k][1] = IF task[i] = "succeeded" THEN "result" ELSE "failed"
    /\ \A i \in (1..Len(areas)) \ Collected : LinesOf(i) = {}
    /\ total >= 1 => main_result # "error_msg"
    /\ completed = Cardinality(Collected)
    /\ Len(printed) = 2 * completed
    /\ \A c \in 1..completed : printed[2 * c] = <<"progress", c, total>>
    /\ (spc = "exited" /\ total >= 1) =>
          /\ futures = {}
          /\ printed[Len(printed)] = <<"progress", Len(areas), Len(areas)>>

\* three partitions, the second failed: main returned and the last line is
\* 3 of 3
C4_Witness ==
    /\ spc = "exited"
    /\ task = <<"succeeded", "failed", "succeeded">>
    /\ main_result = "None"
    /\ printed[Len(printed)] = <<"progress", 3, 3>>

\* C5: when the run has ended, the exit status is non-zero if a dispatched
\* partition failed, and it is 0 only if every partition succeeded.
C5_ExitReflectsFailures ==
    spc = "exited" =>
       /\ (\E i \in DOMAIN task : task[i] = "failed") => ExitStatus # 0
       /\ ExitStatus = 0 => \A i \in DOMAIN task : task[i] = "succeeded"

\* the fraction the pool is sized with: the configured one when it is in
\* (0, 1], else 0.75
EffectiveFraction ==
    IF cpu_prct \in 1..100 THEN cpu_prct ELSE 75

PoolStarted ==
    spc \in {"submitting", "waiting"} \/ (spc = "exited" /\ main_result = "None")

C18_ErrorLogAppendOnly ==
    \A msg \in written : \E k \in DOMAIN error_log : error_log[k] = msg

\* the changes of state a future goes through
FutureSteps ==
    {<<"none", "pending">>, <<"pending", "running">>,
     <<"running", "succeeded">>, <<"running", "failed">>}

\* C19: a future only ever goes from pending to running to its own outcome,
\* whatever its siblings did, and every submitted partition comes to
\* its own success or failure.
C19_SiblingsUntouched ==
    /\ [][\A i \in DOMAIN task \cap DOMAIN task' :
             task'[i] # task[i] => <<task[i], task'[i]>> \in FutureSteps]_vars
    /\ \A i \in 1..MaxAreas :
          (i \in DOMAIN task /\ task[i] = "pending")
             ~> (i \in DOMAIN task /\ task[i] \in {"succeeded", "failed"})

\* with one worker, the first partition has failed and the second is running
C19_Witness ==
    /\ cpu_count_val = 1
    /\ Len(task) >= 2
    /\ task[1] = "failed"
    /\ task[2] = "running"

\* C20: whenever a partition has completed while some partition is not yet
\* submitted, process_areas is able to report it.
C20_ReportsBeforeAllSubmitted ==
    (/\ spc = "submitting"
     /\ submitted < Len(areas)
     /\ \E i \in 1..Len(task) : task[i] \in {"succeeded", "failed"}) =>
       ENABLED S_WaitReport

\* C24: no two tasks submitted in one run are for the same area, so no two
\* pipelines share a workspace or a log file.
C24_DistinctPartitions ==
    \A i, j \in DOMAIN task :
       (i # j /\ task[i] # "none" /\ task[j] # "none") => areas[i] # areas[j]

\* one turn of "while futures" has reported
C27_Step ==
    printed' # printed =>
       /\ futures' \subseteq futures
       /\ futures' # futures
       /\ completed' = completed + Cardinality(futures \ futures')
       /\ \A i \in futures \ futures' :
             /\ i \in Finished
             /\ LinesOf(i) = {}
             /\ Cardinality(LinesOf(i)') = 1
       /\ \A i \in DOMAIN areas \ (futures \ futures') : LinesOf(i)' = LinesOf(i)

\* C27: each turn of the first-completed wait takes the finished futures out
\* of the waited set, prints one outcome line for each of them and for no
\* other, and adds exactly their number to completed; so completed is the
\* number of futures taken out, never exceeds total, and is total with one
\* outcome line per partition when process_areas returns.
C27_OneOutcomeEach ==
    /\ [][C27_Step]_vars
    /\ [](completed = Cardinality(Collected) /\ completed <= total)
    /\ []((spc = "exited" /\ main_result = "None") =>
             /\ completed = total
             /\ total = Len(areas)
             /\ \A i \in DOMAIN areas : Cardinality(LinesOf(i)) = 1)

\* two of three partitions were reported, one failed and one succeeded, and
\* the third is still waited for
C27_Witness ==
    /\ spc = "waiting"
    /\ total = 3
    /\ completed = 2
    /\ futures = {2}
    /\ task[1] = "failed"
    /\ task[3] = "succeeded"
    /\ Cardinality(LinesOf(1)) = 1
    /\ LinesOf(2) = {}

\* the override names an area that get_area_list returned
OverrideDiscovered == \E k \in DOMAIN discovered : discovered[k] = partial_area

\* C29: with an override naming a discovered area, the list submitted is that
\* one area and nothing else; with an override naming no discovered area,
\* nothing is submitted and main ends with an error message, exit status 1;
\* with the override "None" the list submitted is the list discovered.
C29_PartialOverride ==
    /\ (partial_area # 0 /\ OverrideDiscovered /\ PoolStarted) =>
          /\ areas = <<partial_area>>
          /\ DOMAIN task = {1}
          /\ submitted <= 1
    /\ (partial_area # 0 /\ ~OverrideDiscovered) =>
          /\ spc \in {"setup", "exited"}
          /\ task = <<>>
          /\ submitted = 0
          /\ spc = "exited" => (main_result = "error_msg" /\ ExitStatus = 1)
    /\ (partial_area = 0 /\ PoolStarted) =>
          /\ areas = discovered
          /\ DOMAIN task = DOMAIN discovered

\* of three discovered areas the second was named: it alone ran, and main
\* returned
C29_Witness ==
    /\ discovered = <<1, 2, 3>>
    /\ partial_area = 2
    /\ spc = "exited"
    /\ main_result = "None"
    /\ areas = <<2>>
    /\ task = <<"succeeded">>

(***************************************************************************)
(* Properties of the original process_layer (SpecOrig)                      *)
(***************************************************************************)
\* C30: when a select of process_layer counts no fewer polygons than the
\* select before it did (the Eliminate between them did not reduce the
\* selection), process_layer ends its loop and returns, so that the next
\* threshold is processed.
C30_StallEndsThreshold ==
    [][(/\ epc = "pl_select"
        /\ lastEvent' \in {"selected", "break_zero"}
        /\ GetCount(curC, shape_area) >= previous_poly_count) =>
          epc' = "pl_returned"]_vars

RepairRaises == ppc = "repair" /\ lastEvent' = "repair_raised"

C34_Step ==
    /\ RepairRaises => (ppc' = "failed" /\ pr_retry' = pr_retry)
    /\ lastEvent = "repair_raised" =>
          /\ lastEvent' = "repair_raised"
          /\ ppc' = "failed"
          /\ epc' = epc
          /\ totalPasses' = totalPasses
          /\ pr_retry' = pr_retry

\* C34: when repair_topology raises after a failed elimination attempt, the
\* partition is failed at once, with fewer attempts used than the maximum,
\* and from then on no elimination pass is started and no attempt counted:
\* the failure comes out as the outcome of the partition.
C34_RepairFailureEndsPartition ==
    /\ [][C34_Step]_vars
    /\ [](lastEvent = "repair_raised" =>
             (ppc = "failed" /\ pr_retry < processor_max_retries))
    /\ (lastEvent = "repair_raised") ~> (outcome = TaskException)

\* the first attempt failed after its five passes, the repair raised, and
\* ProcessingError is the outcome with one attempt used
C34_Witness ==
    /\ lastEvent = "repair_raised"
    /\ pr_retry = 1
    /\ totalPasses = processor_max_retries
    /\ outcome = TaskException

(***************************************************************************)
(* Properties of the original process_csb (SpecWorker)                      *)
(***************************************************************************)
\* C31: the elimination loop of the original process_csb is bounded: once
\* the maximum number of attempts has failed, each followed by a repair, the
\* partition has ended in failure and elimination is not attempted again.
C31_AttemptsBounded ==
    ~(opc = "eliminate" /\ o_attempts >= processor_max_retries)

\* C35: the log file of an area holds only the records of that area's own
\* partition, also when the worker ran another partition before or after it.
C35_OwnLogOnly ==
    \A f \in DOMAIN log_files : \A rec \in log_files[f] : rec[2] = f

(***************************************************************************)
(* Properties of csb_elimination of csb-udl create_csb.py (SpecUdl)         *)
(***************************************************************************)
\* C32: each call of process_layer starts from the layer made by the most
\* recent successful elimination, the input layer when there is none: a
\* call that failed does not send the next threshold back to the input layer.
C32_StartsFromMostRecentLayer ==
    (epc = "ul_select" /\ iteration = 0 /\ previous_poly_count = Inf) =>
        new_layer_name = recent_layer

====
